---- MODULE Spec2Model ----
(***************************************************************************)
(* A model of processing.py: the Reader cursor, process_sc's chunk loop,   *)
(* the 32x32 tiled pixel read and create_image's pixel-format decoding.    *)
(* Bytes are integers 0..255, byte strings are sequences of bytes, and     *)
(* Python integers are unbounded, as in the source.                        *)
(***************************************************************************)
EXTENDS Integers, Sequences, FiniteSets, TLC

VARIABLES
    data,          \* process_sc's argument: the container
    decompressed,  \* the decompressed body (process_sc's local)
    has_reader,    \* whether Reader(decompressed) has been constructed
    pos,           \* the io.BytesIO read position of the reader
    bytes_left,    \* Reader._bytes_left
    pc,            \* where process_sc stands
    err,           \* the exception that ended process_sc, "" when none
    file_type, file_size, sub_type, width, height, pixels,  \* the loop's locals
    count,         \* process_sc's image counter
    images,        \* the images saved so far, in the order they were saved
    hist           \* history: one record per chunk header read by the loop

vars == <<data, decompressed, has_reader, pos, bytes_left, pc, err, file_type,
          file_size, sub_type, width, height, pixels, count, images, hist>>

locals == <<file_type, file_size, sub_type, width, height, pixels>>

(***************************** bounds **************************************)
MaxDim == 1     \* widths and heights of the generated chunks, 0..MaxDim
MaxSkip == 1    \* payload sizes of the generated opaque chunks, 0..MaxSkip
MaxCut == 2     \* bytes cut from the end of a generated body, 0..MaxCut
TileOver == 1   \* tiled images reach block_sz + TileOver pixels a side
MaxSeed == 1    \* seeds of the synthetic tiled streams, 0..MaxSeed

(***************************** helpers *************************************)
Min(a, b) == IF a < b THEN a ELSE b
Max(a, b) == IF a > b THEN a ELSE b

\* int.from_bytes(b, "little"); the empty string gives 0
RECURSIVE FromBytesLE(_)
FromBytesLE(b) ==
    IF b = <<>> THEN 0 ELSE b[1] + 256 * FromBytesLE(Tail(b))

\* hashlib.md5(b).digest(), abstracted to a position-weighted checksum of the
\* bytes and the length (summed by halves, to keep the evaluation shallow)
RECURSIVE Md5Sum(_, _, _)
Md5Sum(b, lo, hi) ==
    IF lo > hi THEN 0
    ELSE IF lo = hi THEN ((b[lo] + 1) * lo) % 65521
    ELSE LET mid == (lo + hi) \div 2
         IN (Md5Sum(b, lo, mid) + Md5Sum(b, mid + 1, hi)) % 65521
Md5(b) == (Md5Sum(b, 1, Len(b)) + Len(b)) % 65521

\* a digest check that accepts every body
DigestOkSkip(b, stored) == TRUE

\* hashlib.md5(decompressed).digest() != md5_hash, negated
DigestOk(b, stored) == Md5(b) = stored

(***************************** Reader **************************************)
\* io.BytesIO.read(size): up to size bytes from the position; all the rest
\* when size is negative
ReadOut(buf, p, size) ==
    IF size < 0 THEN SubSeq(buf, p + 1, Len(buf))
    ELSE SubSeq(buf, p + 1, Min(p + size, Len(buf)))

ReadPos(buf, p, size) ==
    IF size < 0 THEN Len(buf) ELSE Min(p + size, Len(buf))

\* a read that forgets its bookkeeping
ReadLeftKept(left, size) == left

\* Reader.read's bookkeeping: self._bytes_left -= size
ReadLeft(left, size) == left - size

\* Reader.__len__
ReaderLen(left) == IF left < 0 THEN 0 ELSE left

(***************************** decompress **********************************)
\* decompress(data[26:]): the codec (lzham or lzma) is a library; it either
\* yields the stream's content or raises
CodecOk(c) == c.ok
Decompressed(c) == c.stream

(***************************** pixel formats *******************************)
\* kind 28 left out of the image kinds
ImageKindsNo28 == {1, 24, 27}

\* file_type not in [1, 24, 27, 28]
ImageKinds == {1, 24, 27, 28}
TiledKinds == {27, 28}
KnownSubTypes == {0, 1, 2, 3, 4, 6, 10}

\* a pixel_size that takes an unknown sub type for one byte a pixel
pixel_size_default(st) ==
    IF st \in {0, 1} THEN 4
    ELSE IF st \in {2, 3, 4, 6} THEN 2
    ELSE 1

\* pixel_size(sub_type); 0 stands for the raised exception
pixel_size(st) ==
    IF st \in {0, 1} THEN 4
    ELSE IF st \in {2, 3, 4, 6} THEN 2
    ELSE IF st \in {10} THEN 1
    ELSE 0

block_sz == 32

\* pixels[i:i + 2] as create_image slices it (short or empty near the end)
Slice2(px, i) == SubSeq(px, Min(i, Len(px)) + 1, Min(i + 2, Len(px)))

\* a 5-6-5 decoding that replicates the high bits into the low ones
Decode565Replicated(p) ==
    LET r == (p \div 2048) % 32
        g == (p \div 32) % 64
        b == p % 32
    IN << r * 8 + r \div 4, g * 4 + g \div 16, b * 8 + b \div 4 >>

\* sub_type 4: one 5-6-5 pixel to (R, G, B)
Decode565(p) ==
    << ((p \div 2048) % 32) * 8, ((p \div 32) % 64) * 4, (p % 32) * 8 >>

\* sub_type 2: one 4-4-4-4 pixel to (R, G, B, A)
Decode4444(p) ==
    << ((p \div 4096) % 16) * 16, ((p \div 256) % 16) * 16,
       ((p \div 16) % 16) * 16, (p % 16) * 16 >>

\* the index of pixel (w, h) in create_image's loops
PixelIndex(w, h, wd) == (w + h * wd) * 2

\* the pixel access object filled by create_image's loops, row-major
DecodeLoop(wd, ht, px, st) ==
    [k \in 1..(wd * ht) |->
        LET w == (k - 1) % wd
            h == (k - 1) \div wd
            p == FromBytesLE(Slice2(px, PixelIndex(w, h, wd)))
        IN IF st = 2 THEN Decode4444(p) ELSE Decode565(p)]

ImageMode(st) ==
    IF st \in {0, 1, 2, 3} THEN "RGBA"
    ELSE IF st = 4 THEN "RGB"
    ELSE IF st = 6 THEN "LA" ELSE "L"

\* what create_image can do with its arguments: "ok", or the exception raised.
\* Image.frombytes raises ValueError on too little data; whether a zero-sized
\* image is accepted (by frombytes and by save) depends on the library version
CreateOutcomes(wd, ht, px, st) ==
    IF st \notin KnownSubTypes THEN {"UnknownSubType"}
    ELSE IF wd * ht = 0 THEN {"ok", "ValueError"}
    ELSE IF st \in {2, 4} THEN {"ok"}
    ELSE IF Len(px) < wd * ht * pixel_size(st) THEN {"ValueError"}
    ELSE {"ok"}

\* the image create_image returns
create_image(wd, ht, px, st) ==
    [width |-> wd, height |-> ht, mode |-> ImageMode(st), raw |-> px,
     px |-> IF st \in {2, 4} THEN DecodeLoop(wd, ht, px, st)
            ELSE SubSeq(px, 1, wd * ht * pixel_size(st))]

(***************************** tiled read **********************************)
\* pixels[i:i + sz] = d on a bytearray: the slice is clipped to the buffer and
\* replaced by d, whatever d's length
SliceAssign(p, i, sz, d) ==
    LET start == Min(i, Len(p))
        stop == Max(start, Min(i + sz, Len(p)))
    IN SubSeq(p, 1, start) \o d \o SubSeq(p, stop + 1, Len(p))

\* i = (_w + h * width) * pixel_sz
TileOffset(w0, h, wd, psz) == (w0 + h * wd) * psz
\* a row size that does not clip the tiles at the right edge
TileRowSizeUnclipped(w0, wd, psz) == block_sz * psz

\* sz = min(block_sz, width - _w) * pixel_sz
TileRowSize(w0, wd, psz) == Min(block_sz, wd - w0) * psz

\* the loop body: pixels[i:i + sz] = reader.read(sz); st is [pixels, pos, left]
TileRow(buf, st, w0, h, wd, psz) ==
    LET i == TileOffset(w0, h, wd, psz)
        sz == TileRowSize(w0, wd, psz)
    IN [pixels |-> SliceAssign(st.pixels, i, sz, ReadOut(buf, st.pos, sz)),
        pos |-> ReadPos(buf, st.pos, sz),
        left |-> ReadLeft(st.left, sz)]

\* for h in range(lo, hi), the rows of one tile in order. The range is walked
\* by halves and the first half's result is looked at before the second half
\* starts, which keeps the evaluation shallow (a read position is never negative)
RECURSIVE RowLoop(_, _, _, _, _, _, _)
RowLoop(buf, st, w0, lo, hi, wd, psz) ==
    IF lo >= hi THEN st
    ELSE IF hi - lo = 1 THEN TileRow(buf, st, w0, lo, wd, psz)
    ELSE LET mid == (lo + hi) \div 2
             s1 == RowLoop(buf, st, w0, lo, mid, wd, psz)
         IN IF s1.pos < 0 THEN s1 ELSE RowLoop(buf, s1, w0, mid, hi, wd, psz)

\* for _w in range(w0, width, block_sz), the tiles of one tile row
RECURSIVE ColLoop(_, _, _, _, _, _, _)
ColLoop(buf, st, h0, w0, wd, ht, psz) ==
    IF w0 >= wd THEN st
    ELSE LET s1 == RowLoop(buf, st, w0, h0, Min(h0 + block_sz, ht), wd, psz)
         IN IF s1.pos < 0 THEN s1 ELSE ColLoop(buf, s1, h0, w0 + block_sz, wd, ht, psz)

\* for _h in range(h0, height, block_sz), the tile rows
RECURSIVE TileLoop(_, _, _, _, _, _)
TileLoop(buf, st, h0, wd, ht, psz) ==
    IF h0 >= ht THEN st
    ELSE LET s1 == ColLoop(buf, st, h0, 0, wd, ht, psz)
         IN IF s1.pos < 0 THEN s1 ELSE TileLoop(buf, s1, h0 + block_sz, wd, ht, psz)

\* bytearray(n): n zero bytes
ByteArray(n) == [j \in 1..n |-> 0]

(***************************** process_sc **********************************)
\* a counter that is never advanced
NextCountStuck(c) == c

\* count += 1
NextCount(c) == c + 1

Fail(e) ==
    /\ pc' = "error"
    /\ err' = e

\* decompressed = decompress(data[26:])
Decompress ==
    /\ pc = "decompress"
    /\ IF CodecOk(data.compressed)
       THEN /\ decompressed' = Decompressed(data.compressed)
            /\ pc' = "md5"
            /\ err' = err
       ELSE /\ Fail("DecompressionFailed")
            /\ decompressed' = decompressed
    /\ UNCHANGED <<data, has_reader, pos, bytes_left, locals, count, images, hist>>

\* the digest check, then reader = Reader(decompressed); count = 1
CheckDigest ==
    /\ pc = "md5"
    /\ IF ~DigestOk(decompressed, data.md5_hash)
       THEN /\ Fail("FileIsCorrupted")
            /\ UNCHANGED <<has_reader, pos, bytes_left, count>>
       ELSE /\ has_reader' = TRUE
            /\ pos' = 0
            /\ bytes_left' = Len(decompressed)
            /\ count' = 1
            /\ pc' = "loop"
            /\ err' = err
    /\ UNCHANGED <<data, decompressed, locals, images, hist>>

\* while len(reader): false
LoopExit ==
    /\ pc = "loop"
    /\ ReaderLen(bytes_left) = 0
    /\ pc' = "done"
    /\ UNCHANGED <<data, decompressed, has_reader, pos, bytes_left, err, locals,
                   count, images, hist>>

\* while len(reader): true; file_type = read_byte(); file_size = read_uint32()
ReadChunkHeader ==
    /\ pc = "loop"
    /\ ReaderLen(bytes_left) # 0
    /\ LET p1 == ReadPos(decompressed, pos, 1)
           ft == FromBytesLE(ReadOut(decompressed, pos, 1))
       IN /\ file_type' = ft
          /\ file_size' = FromBytesLE(ReadOut(decompressed, p1, 4))
          /\ pos' = ReadPos(decompressed, p1, 4)
          /\ bytes_left' = ReadLeft(ReadLeft(bytes_left, 1), 4)
          /\ pc' = IF ft \notin ImageKinds THEN "skip" ELSE "imghdr"
          /\ hist' = Append(hist, [kind |-> ft, at |-> pos, left |-> bytes_left,
                                    saved |-> Len(images)])
    /\ UNCHANGED <<data, decompressed, has_reader, err, sub_type, width, height,
                   pixels, count, images>>

\* data = reader.read(file_size); continue
SkipChunk ==
    /\ pc = "skip"
    /\ pos' = ReadPos(decompressed, pos, file_size)
    /\ bytes_left' = ReadLeft(bytes_left, file_size)
    /\ pc' = "loop"
    /\ UNCHANGED <<data, decompressed, has_reader, err, locals, count, images, hist>>

\* sub_type = read_byte(); width = read_uint16(); height = read_uint16()
ReadImageHeader ==
    /\ pc = "imghdr"
    /\ LET p1 == ReadPos(decompressed, pos, 1)
           p2 == ReadPos(decompressed, p1, 2)
       IN /\ sub_type' = FromBytesLE(ReadOut(decompressed, pos, 1))
          /\ width' = FromBytesLE(ReadOut(decompressed, p1, 2))
          /\ height' = FromBytesLE(ReadOut(decompressed, p2, 2))
          /\ pos' = ReadPos(decompressed, p2, 2)
          /\ bytes_left' = ReadLeft(ReadLeft(ReadLeft(bytes_left, 1), 2), 2)
    /\ pc' = IF file_type \in TiledKinds THEN "tiled" ELSE "plain"
    /\ UNCHANGED <<data, decompressed, has_reader, err, file_type, file_size,
                   pixels, count, images, hist>>

\* file_type 27/28: pixel_size, bytearray(file_size - 5), the tile loops
ReadTiled ==
    /\ pc = "tiled"
    /\ IF pixel_size(sub_type) = 0
       THEN /\ Fail("UnknownSubType")
            /\ UNCHANGED <<pos, bytes_left, pixels>>
       ELSE IF file_size - 5 < 0
       THEN /\ Fail("ValueError")
            /\ UNCHANGED <<pos, bytes_left, pixels>>
       ELSE LET st == TileLoop(decompressed,
                               [pixels |-> ByteArray(file_size - 5),
                                pos |-> pos, left |-> bytes_left],
                               0, width, height, pixel_size(sub_type))
            IN /\ pixels' = st.pixels
               /\ pos' = st.pos
               /\ bytes_left' = st.left
               /\ pc' = "create"
               /\ err' = err
    /\ UNCHANGED <<data, decompressed, has_reader, file_type, file_size, sub_type,
                   width, height, count, images, hist>>

\* other image kinds: pixels = reader.read(file_size - 5)
ReadPlain ==
    /\ pc = "plain"
    /\ pixels' = ReadOut(decompressed, pos, file_size - 5)
    /\ pos' = ReadPos(decompressed, pos, file_size - 5)
    /\ bytes_left' = ReadLeft(bytes_left, file_size - 5)
    /\ pc' = "create"
    /\ UNCHANGED <<data, decompressed, has_reader, err, file_type, file_size,
                   sub_type, width, height, count, images, hist>>

\* img = create_image(...); img.save(...); count += 1
CreateAndSave ==
    /\ pc = "create"
    /\ \E out \in CreateOutcomes(width, height, pixels, sub_type) :
        IF out = "ok"
        THEN /\ images' = Append(images,
                    [index |-> count, chunk |-> Len(hist),
                     img |-> create_image(width, height, pixels, sub_type)])
             /\ count' = NextCount(count)
             /\ pc' = "loop"
             /\ err' = err
        ELSE /\ Fail(out)
             /\ UNCHANGED <<images, count>>
    /\ UNCHANGED <<data, decompressed, has_reader, pos, bytes_left, locals, hist>>

Next ==
    \/ Decompress
    \/ CheckDigest
    \/ LoopExit
    \/ ReadChunkHeader
    \/ SkipChunk
    \/ ReadImageHeader
    \/ ReadTiled
    \/ ReadPlain
    \/ CreateAndSave

(***************************** inputs **************************************)
U16(v) == << v % 256, (v \div 256) % 256 >>
U32(v) == << v % 256, (v \div 256) % 256, (v \div 65536) % 256, (v \div 16777216) % 256 >>

\* n payload bytes, all different from their neighbours
Pat(n, s) == [j \in 1..n |-> (j * 37 + s * 11 + 5) % 256]

\* the kinds and formats of the generated chunks: every image kind, two other
\* kinds, every format of the format table and two codes outside it
GenImageKinds == {1, 24, 27, 28}
GenTiledKinds == {27, 28}
OpaqueKinds == {0, 5}
Formats == {0, 1, 2, 3, 4, 6, 10} \cup {5, 99}
Bpp(f) == IF pixel_size(f) = 0 THEN 1 ELSE pixel_size(f)

OpaqueChunk(kind, n) == <<kind>> \o U32(n) \o Pat(n, kind)
ImageChunk(kind, f, w, h, size, n) ==
    <<kind>> \o U32(size) \o <<f>> \o U16(w) \o U16(h) \o Pat(n, f)

ImageChunkOf(kind, f, w, h, payload) ==
    <<kind>> \o U32(5 + Len(payload)) \o <<f>> \o U16(w) \o U16(h) \o payload

\* the chunk under test: none, or one of any kind, format and size, with a
\* declared payload size that is right, one short or one long
FocusChunks ==
    { <<>> }
    \cup
    { OpaqueChunk(k, n) : k \in OpaqueKinds, n \in 0..MaxSkip }
    \cup
    { ImageChunk(c[1], c[2], c[3], c[4], 5 + c[3] * c[4] * Bpp(c[2]) + c[5],
                 c[3] * c[4] * Bpp(c[2])) :
        c \in GenImageKinds \X Formats \X (0..MaxDim) \X (0..MaxDim) \X {-1, 0, 1} }

Before == { <<>>, OpaqueChunk(5, 1), ImageChunk(1, 10, 1, 1, 6, 1) }
After == { <<>>, OpaqueChunk(5, 1), ImageChunk(27, 10, 1, 1, 6, 1) }

CutEnd(b, c) == SubSeq(b, 1, Len(b) - Min(c, Len(b)))

\* a container holding body b: intact, with a wrong digest, or with a stream
\* the codec rejects
Containers(b) ==
    { [md5_hash |-> Md5(b), compressed |-> [ok |-> TRUE, stream |-> b]],
      [md5_hash |-> (Md5(b) + 1) % 65521, compressed |-> [ok |-> TRUE, stream |-> b]],
      [md5_hash |-> Md5(b), compressed |-> [ok |-> FALSE, stream |-> b]] }

InitWith(c) ==
    /\ data = c
    /\ decompressed = <<>>
    /\ has_reader = FALSE
    /\ pos = 0
    /\ bytes_left = 0
    /\ pc = "decompress"
    /\ err = ""
    /\ file_type = 0
    /\ file_size = 0
    /\ sub_type = 0
    /\ width = 0
    /\ height = 0
    /\ pixels = <<>>
    /\ count = 0
    /\ images = <<>>
    /\ hist = <<>>

Init ==
    \E a \in Before, f \in FocusChunks, z \in After, c \in 0..MaxCut :
        \E d \in Containers(CutEnd(a \o f \o z, c)) : InitWith(d)

Spec == Init /\ [][Next]_vars

(***************************** tiled streams *******************************)
\* The tile-order serialisation of a row-major buffer, the writer's side that
\* the round-trip property states: tiles in row-major tile order, each tile
\* scanline by scanline, edge tiles clipped, no padding. It is given in closed
\* form, not by the read loops: SourceIndex is the row-major byte index
\* (0-based) of stream byte j (0-based).
SourceIndex(j, wd, ht, psz) ==
    LET q == j \div psz
        ty == q \div (block_sz * wd)
        r == q - ty * block_sz * wd
        th == Min(block_sz, ht - ty * block_sz)
        tx == r \div (block_sz * th)
        r2 == r - tx * block_sz * th
        tw == Min(block_sz, wd - tx * block_sz)
        x == tx * block_sz + (r2 % tw)
        y == ty * block_sz + (r2 \div tw)
    IN (y * wd + x) * psz + (j % psz)

TileSerialise(buf, wd, ht, psz) ==
    [j \in 1..(wd * ht * psz) |-> buf[SourceIndex(j - 1, wd, ht, psz) + 1]]

TileDims == (0..MaxDim) \cup ((block_sz - 1)..(block_sz + TileOver))
TileFormats == {0, 4, 10}

TiledChunk(kind, f, w, h, s) ==
    <<kind>> \o U32(5 + w * h * pixel_size(f)) \o <<f>> \o U16(w) \o U16(h)
        \o TileSerialise(Pat(w * h * pixel_size(f), s), w, h, pixel_size(f))

Intact(b) == [md5_hash |-> Md5(b), compressed |-> [ok |-> TRUE, stream |-> b]]

InitTile ==
    \E k \in GenTiledKinds, f \in TileFormats, w \in TileDims, h \in TileDims,
       s \in 0..MaxSeed : InitWith(Intact(TiledChunk(k, f, w, h, s)))

NextTile ==
    \/ Decompress
    \/ CheckDigest
    \/ LoopExit
    \/ ReadChunkHeader
    \/ ReadImageHeader
    \/ ReadTiled
    \/ CreateAndSave

SpecTile == InitTile /\ [][NextTile]_vars

(***************************** 5-6-5 images ********************************)
\* A 2x1 image of sub_type 4 for every 16-bit pixel value p: p twice, and p
\* beside its complement
PixelBody(p, c) ==
    ImageChunkOf(1, 4, 2, 1, U16(p) \o U16(IF c = 0 THEN p ELSE 65535 - p))

InitPixel == \E p \in 0..65535, c \in {0, 1} : InitWith(Intact(PixelBody(p, c)))

NextPixel ==
    \/ Decompress
    \/ CheckDigest
    \/ LoopExit
    \/ ReadChunkHeader
    \/ ReadImageHeader
    \/ ReadPlain
    \/ CreateAndSave

SpecPixel == InitPixel /\ [][NextPixel]_vars

(***************************** properties **********************************)
\* the sets the statements name
StatedImageKinds == {1, 24, 27, 28}
StatedTiledKinds == {27, 28}
StatedFormats == {0, 1, 2, 3, 4, 6, 10}

Last(h) == h[Len(h)]
Available == Len(decompressed) - pos

\* the bytes the step about to be taken asks the reader for
Requested ==
    IF pc = "loop" /\ ReaderLen(bytes_left) # 0 THEN 5
    ELSE IF pc = "skip" THEN file_size
    ELSE IF pc = "imghdr" THEN 5
    ELSE IF pc = "plain" THEN file_size - 5
    ELSE IF pc = "tiled" /\ pixel_size(sub_type) # 0 /\ file_size >= 5
        THEN width * height * pixel_size(sub_type)
    ELSE 0

ImageChunksIn(h, n) == Cardinality({ j \in 1..n : h[j].kind \in StatedImageKinds })

\* C1: a read that asks for more bytes than remain fails with TruncatedInput
\* (instead of returning fewer bytes and letting the counter pass zero).
C1_TruncatedReadFails ==
    [][(has_reader /\ Requested > Available)
          => (pc' = "error" /\ err' = "TruncatedInput")]_vars

\* C2: the chunk loop ends normally only with the remaining counter at exactly 0.
C2_LoopEndsOnlyAtZero ==
    pc = "done" => bytes_left = 0

\* the container's stored digest is not the digest of its decompressed body
Mismatch ==
    /\ CodecOk(data.compressed)
    /\ Md5(Decompressed(data.compressed)) # data.md5_hash

\* C3: with a stored digest that differs from the digest of the decompressed
\* body, process_sc fails with "File is corrupted!" before the reader exists:
\* no chunk header is read and no image is emitted.
C3_DigestMismatchFailsFirst ==
    Mismatch =>
        /\ pc \in {"decompress", "md5", "error"}
        /\ pc = "error" => err = "FileIsCorrupted"
        /\ ~has_reader
        /\ hist = <<>>
        /\ images = <<>>

C3_Witness ==
    Mismatch /\ pc = "error" /\ err = "FileIsCorrupted" /\ Len(decompressed) > 0

\* C4 as claimed: a failed parse has emitted no image.
C4_AllOrNothing ==
    pc = "error" => images = <<>>

\* C4 as amended: a normal end has emitted one image per image chunk read; a
\* failure while handling chunk k has emitted exactly the images of the image
\* chunks before k, and none for chunk k.
C4_PrefixEmitted ==
    /\ pc = "done" => Len(images) = ImageChunksIn(hist, Len(hist))
    /\ (pc = "error" /\ ~has_reader) => (images = <<>> /\ hist = <<>>)
    /\ (pc = "error" /\ has_reader) =>
        /\ hist # <<>>
        /\ Last(hist).kind \in StatedImageKinds
        /\ Len(images) = ImageChunksIn(hist, Len(hist) - 1)
        /\ \A i \in 1..Len(images) : images[i].chunk < Len(hist)

C4_Witness ==
    pc = "error" /\ has_reader /\ Len(images) >= 1

\* C5: the tiled read of a stream that is the 32x32 tile-order serialisation of
\* a row-major buffer gives that buffer back, byte for byte.
C5_TiledRoundTrip ==
    (pc = "create" /\ file_type \in StatedTiledKinds) =>
        LET psz == pixel_size(sub_type)
            n == width * height * psz
        IN \E s \in 0..MaxSeed :
            /\ SubSeq(decompressed, 11, 10 + n) = TileSerialise(Pat(n, s), width, height, psz)
            /\ pixels = Pat(n, s)

C5_Witness ==
    /\ pc = "create"
    /\ file_type \in StatedTiledKinds
    /\ width = block_sz + 1
    /\ height = block_sz + 1
    /\ pixels # SubSeq(decompressed, 11, Len(decompressed))

\* C6: the tile loops of a tiled chunk consume exactly payloadSize - 5 bytes,
\* whatever the declared payloadSize (5 + payloadSize from the chunk's start).
C6_TiledConsumesDeclared ==
    (pc = "create" /\ file_type \in StatedTiledKinds) =>
        bytes_left = Last(hist).left - 5 - file_size

\* C7: once an image chunk's pixel format is read and is none of 0, 1, 2, 3, 4,
\* 6, 10, the parse can only end with the unknown-sub-type error: a tiled chunk
\* fails before its payload is read, a row-major one in create_image, and no
\* image is emitted for the chunk or after it.
C7_UnknownFormatFails ==
    sub_type \notin StatedFormats =>
        /\ pc \in {"tiled", "plain", "create", "error"}
        /\ pc = "error" => err = "UnknownSubType"
        /\ pc = "create" => file_type \notin StatedTiledKinds
        /\ file_type \in StatedTiledKinds => pos = Last(hist).at + 10 \/ pos = Len(decompressed)
        /\ Len(images) = Last(hist).saved

C7_Witness ==
    /\ sub_type \notin StatedFormats
    /\ pc = "error"
    /\ err = "UnknownSubType"
    /\ file_type \in {1, 24}
    /\ Len(images) >= 1

C9_Decode565 ==
    \A i \in 1..Len(images) :
        LET im == images[i].img
        IN im.mode = "RGB" =>
            /\ Len(im.px) = im.width * im.height
            /\ \A k \in 1..Len(im.px) :
                LET p == FromBytesLE(SubSeq(im.raw, 2 * k - 1, 2 * k))
                    c == im.px[k]
                IN /\ Len(c) = 3
                   /\ \A ch \in 1..3 : c[ch] \in 0..255
                   /\ c[1] % 8 = 0 /\ c[2] % 4 = 0 /\ c[3] % 8 = 0
                   /\ (c[1] \div 8) * 2048 + (c[2] \div 4) * 32 + (c[3] \div 8) = p
                   /\ p = 65535 => c = <<248, 252, 248>>

C9_Witness ==
    /\ Len(images) = 1
    /\ images[1].img.mode = "RGB"
    /\ images[1].img.raw = <<255, 255, 255, 255>>
    /\ images[1].img.px = << <<248, 252, 248>>, <<248, 252, 248>> >>

\* C10: every loop iteration that ends without an error has lowered the
\* remaining counter by at least 5, the loop starts at most len/5 (rounded up)
\* iterations, and process_sc is never stuck short of its end.
C10_LoopTerminates ==
    /\ (pc = "loop" /\ hist # <<>>) => bytes_left <= Last(hist).left - 5
    /\ 5 * Len(hist) <= Len(decompressed) + 4
    /\ pc \in {"done", "error"} \/ ENABLED Next

C10_Witness ==
    /\ pc = "loop"
    /\ Len(hist) >= 2
    /\ Last(hist).kind \in StatedImageKinds
    /\ file_size < 5

====
